---- MODULE Spec2Model ----
(***************************************************************************)
(* Detection fusion and multi-object tracking of object_finder.py:         *)
(* the per-frame transaction of ObjectProcess.process_frame (lines         *)
(* 466-473) over the list self.objects of BoxObject records.               *)
(*                                                                         *)
(* A box is the tuple <<x1, y1, x2, y2>>.  A BoxObject is the record       *)
(* [is_hidden, last_boxes, avg_box, last_seen, age].  The value None that  *)
(* update() receives for "no detection" is the empty tuple.                *)
(*                                                                         *)
(* Floating point.  Every operand of get_closest_box is an integer-valued  *)
(* double, so the squared quantities are exact; a normalized distance is   *)
(* kept as its exact ingredients (see Distance) and compared without       *)
(* rounding.  np.mean(...).astype(np.uint32) is the floor of the exact     *)
(* mean for non-negative coordinates.                                      *)
(***************************************************************************)
EXTENDS Integers, Sequences, FiniteSets, TLC

VARIABLES
    objects,         \* self.objects: the live BoxObjects, in list order
    boxes,           \* the frame's boxes from get_bboxes_from_labels
    boxes_contours,  \* the frame's boxes after remove_outliers
    used_boxes,      \* the frame's used_boxes flags, one per boxes_contours entry
    n_vehicles,      \* draw_info's counter of drawn objects
    pc,              \* position inside process_frame: the next call to run
    lost,            \* history: the objects the last remove_lost_objects dropped
    lived,           \* history: per live object, the frames it has been in the list
    changes,         \* history: frames whose input differed from the frame before
    hot_windows,     \* the frame's hot_windows / box_list: ((x1, y1), (x2, y2)) each
    heat,            \* the frame's heatmap, a count per pixel
    distances,       \* results of get_closest_box calls on one pair of boxes
    quiet            \* history: consecutive frames without candidates, counted up to 24

vars == <<objects, boxes, boxes_contours, used_boxes, n_vehicles, pc, lost, lived, changes,
          hot_windows, heat, distances, quiet>>

(***************************************************************************)
(* Program constants.                                                      *)
(***************************************************************************)
\* dist_thresh = 0.1, kept as the fraction dist_thresh_num / dist_thresh_den
dist_thresh_num == 1
dist_thresh_den == 10
\* 1.5 * dist_thresh evaluates to the double 0.15000000000000002, the next
\* double above the one nearest 3/20: a distance of exactly 3/20 is below it.
unhide_thresh_num == 3
unhide_thresh_den == 20
last_seen_thresh == 24
num_frames == 10
\* remove_lost_objects(age_threshold=8) and draw_info(age_threshold=8)
age_threshold == 8
draw_age_threshold == 8
split_row == 450
min_size_far == 32
min_size_near == 64

None == <<>>

(***************************************************************************)
(* Bounds of the model.                                                    *)
(***************************************************************************)
\* candidate boxes arrive only while every live object is younger than this
MaxBusyAge == 12
\* frames (with live objects) whose input differs from the previous frame's
MaxChanges == 2

(***************************************************************************)
(* Pure helpers.                                                           *)
(***************************************************************************)
Min(a, b) == IF a < b THEN a ELSE b

RECURSIVE SumCoord(_, _)
\* sum of coordinate k over a sequence of boxes
SumCoord(bs, k) ==
    IF bs = <<>> THEN 0 ELSE bs[1][k] + SumCoord(Tail(bs), k)

\* np.mean(bs, axis=0).astype(np.uint32)
MeanBox(bs) ==
    <<SumCoord(bs, 1) \div Len(bs), SumCoord(bs, 2) \div Len(bs),
      SumCoord(bs, 3) \div Len(bs), SumCoord(bs, 4) \div Len(bs)>>

\* l[-bound:]
LastN(l, bound) == SubSeq(l, Len(l) - bound + 1, Len(l))

RECURSIVE Repeat(_, _)
\* [box] * n
Repeat(box, n) == IF n = 0 THEN <<>> ELSE <<box>> \o Repeat(box, n - 1)

\* get_center_points for one box: x1 + width // 2, y1 + height // 2
get_center_points(b) ==
    <<b[1] + ((b[3] - b[1]) \div 2), b[2] + ((b[4] - b[2]) \div 2)>>

(***************************************************************************)
(* The normalized distance of get_closest_box between box and o, as its    *)
(* exact ingredients:                                                      *)
(*     distance = sqrt(c2) / ((sqrt(d1) + sqrt(d2)) / 2)                   *)
(* c2: squared distance of the centers; d1, d2: x1^2 + x2^2 of each box    *)
(* (the code's "diagonal" reads coordinates 0 and 2).                      *)
(***************************************************************************)
Distance(box, o) ==
    LET cb == get_center_points(box)
        co == get_center_points(o)
    IN  [c2 |-> (cb[1] - co[1]) * (cb[1] - co[1]) + (cb[2] - co[2]) * (cb[2] - co[2]),
         d1 |-> box[1] * box[1] + box[3] * box[3],
         d2 |-> o[1] * o[1] + o[3] * o[3]]

\* sqrt(X) < sqrt(Y) + sqrt(Z), for naturals.  With D = X - Y - Z this is
\* D < 2 sqrt(YZ); 2 sqrt(YZ) <= Y + Z, so D >= Y + Z decides it without squaring.
SqrtLtSum(X, Y, Z) ==
    LET D == X - Y - Z
    IN  D < 0 \/ (D < Y + Z /\ D * D < 4 * Y * Z)

\* sqrt(X) <= sqrt(Y) + sqrt(Z), for naturals
SqrtLeSum(X, Y, Z) ==
    LET D == X - Y - Z
    IN  D <= 0 \/ (D <= Y + Z /\ D * D <= 4 * Y * Z)

\* distance < n / m
DistBelow(d, n, m) ==
    SqrtLtSum(4 * m * m * d.c2, n * n * d.d1, n * n * d.d2)

\* distance <= n / m
DistAtMost(d, n, m) ==
    SqrtLeSum(4 * m * m * d.c2, n * n * d.d1, n * n * d.d2)

\* sqrt(P) + sqrt(Q) < sqrt(R) + sqrt(S), for naturals
SumSqrtLt(P, Q, R, S) ==
    LET D == R + S - P - Q
    IN  IF D >= 0
        THEN LET E == 4 * P * Q - D * D - 4 * R * S
             IN  E < 0 \/ E * E < 16 * D * D * R * S
        ELSE LET F == 4 * R * S - 4 * P * Q - D * D
             IN  F > 0 /\ F * F > 16 * D * D * P * Q

\* distance d < distance e, both taken from the same box (d.d1 = e.d1):
\* sqrt(d.c2) (sqrt(d1) + sqrt(e.d2)) < sqrt(e.c2) (sqrt(d1) + sqrt(d.d2))
DistLess(d, e) ==
    IF d.d2 = e.d2
    THEN d.c2 < e.c2
    ELSE SumSqrtLt(d.c2 * d.d1, d.c2 * e.d2, e.c2 * d.d1, e.c2 * d.d2)

\* distances.argmin(): the first index holding the minimum
ArgMin(box, o_boxes) ==
    CHOOSE i \in 1..Len(o_boxes) :
        /\ \A j \in 1..Len(o_boxes) :
               ~DistLess(Distance(box, o_boxes[j]), Distance(box, o_boxes[i]))
        /\ \A j \in 1..(i - 1) :
               DistLess(Distance(box, o_boxes[i]), Distance(box, o_boxes[j]))

\* get_closest_box: closest_dist and closest_box (1-based), o_boxes not empty
get_closest_box(box, o_boxes) ==
    LET i == ArgMin(box, o_boxes)
    IN  [closest_dist |-> Distance(box, o_boxes[i]), closest_box |-> i]

(***************************************************************************)
(* BoxObject (lines 76-111).                                               *)
(***************************************************************************)
\* update that ages a track only when it receives a box
update_AgeOnlyOnBox(o, box) ==
    IF box # None
    THEN LET boxes1 == Append(o.last_boxes, box)
             bound  == Min(Len(boxes1), num_frames)
         IN  [o EXCEPT !.last_boxes = boxes1,
                       !.avg_box = MeanBox(LastN(boxes1, bound)),
                       !.last_seen = 0,
                       !.age = @ + 1]
    ELSE [o EXCEPT !.last_seen = @ + 1]

\* update that averages all of last_boxes instead of the last num_frames
update_MeanOfAll(o, box) ==
    IF box # None
    THEN LET boxes1 == Append(o.last_boxes, box)
         IN  [o EXCEPT !.last_boxes = boxes1,
                       !.avg_box = MeanBox(boxes1),
                       !.last_seen = 0,
                       !.age = @ + 1]
    ELSE [o EXCEPT !.last_seen = @ + 1,
                   !.age = @ + 1]

\* update that does nothing when it receives no box
update_IgnoreNone(o, box) ==
    IF box # None
    THEN LET boxes1 == Append(o.last_boxes, box)
             bound  == Min(Len(boxes1), num_frames)
         IN  [o EXCEPT !.last_boxes = boxes1,
                       !.avg_box = MeanBox(LastN(boxes1, bound)),
                       !.last_seen = 0,
                       !.age = @ + 1]
    ELSE o

\* update that leaves last_seen alone when it receives a box
update_NoReset(o, box) ==
    IF box # None
    THEN LET boxes1 == Append(o.last_boxes, box)
             bound  == Min(Len(boxes1), num_frames)
         IN  [o EXCEPT !.last_boxes = boxes1,
                       !.avg_box = MeanBox(LastN(boxes1, bound)),
                       !.age = @ + 1]
    ELSE [o EXCEPT !.last_seen = @ + 1,
                   !.age = @ + 1]

\* BoxObject.update
update(o, box) ==
    IF box # None
    THEN LET boxes1 == Append(o.last_boxes, box)
             bound  == Min(Len(boxes1), num_frames)
         IN  [o EXCEPT !.last_boxes = boxes1,
                       !.avg_box = MeanBox(LastN(boxes1, bound)),
                       !.last_seen = 0,
                       !.age = @ + 1]
    ELSE [o EXCEPT !.last_seen = @ + 1,
                   !.age = @ + 1]

\* BoxObject.__init__
BoxObject(box) ==
    update([is_hidden |-> FALSE, last_boxes |-> <<>>, avg_box |-> None,
            last_seen |-> 0, age |-> 0], box)

\* BoxObject.unhide
unhide(o, box) ==
    IF o.is_hidden
    THEN [o EXCEPT !.last_boxes = @ \o Repeat(box, num_frames),
                   !.is_hidden = FALSE]
    ELSE o

(***************************************************************************)
(* ObjectProcess: the tracking calls of process_frame (lines 292-367).     *)
(***************************************************************************)
\* the test of remove_outliers on one box
KeepBox(bc) ==
    LET w == bc[3] - bc[1]
        h == bc[4] - bc[2]
    IN  IF bc[2] < split_row /\ w > min_size_far /\ h > min_size_far
        THEN TRUE
        ELSE bc[2] > split_row /\ w > min_size_near /\ h > min_size_near

\* ObjectProcess.remove_outliers
remove_outliers(bs) == SelectSeq(bs, KeepBox)

\* UpdateStep that forgets to mark the box claimed (line 334 missing)
UpdateStep_NoClaim(o, bc, used) ==
    LET c == get_closest_box(o.avg_box, bc)
        k == c.closest_box
    IN  IF DistBelow(c.closest_dist, dist_thresh_num, dist_thresh_den)
        THEN [object |-> update(IF used[k] THEN [o EXCEPT !.is_hidden = TRUE] ELSE o,
                                bc[k]),
              used   |-> used]
        ELSE [object |-> update(o, None), used |-> used]

\* one iteration of the loop of update_objects (lines 328-336) on object o
UpdateStep(o, bc, used) ==
    LET c == get_closest_box(o.avg_box, bc)
        k == c.closest_box
    IN  IF DistBelow(c.closest_dist, dist_thresh_num, dist_thresh_den)
        THEN [object |-> update(IF used[k] THEN [o EXCEPT !.is_hidden = TRUE] ELSE o,
                                bc[k]),
              used   |-> [used EXCEPT ![k] = TRUE]]
        ELSE [object |-> update(o, None), used |-> used]

RECURSIVE UpdateLoop(_, _, _, _)
\* the loop of update_objects from object i on
UpdateLoop(objs, bc, used, i) ==
    IF i > Len(objs)
    THEN [objects |-> objs, used_boxes |-> used]
    ELSE LET r == UpdateStep(objs[i], bc, used)
         IN  UpdateLoop([objs EXCEPT ![i] = r.object], bc, r.used, i + 1)

\* update_objects whose empty-input branch returns without updating the objects
update_objects_SkipEmpty(objs, bc) ==
    LET used == [j \in 1..Len(bc) |-> FALSE]
    IN  IF Len(bc) = 0
        THEN [objects |-> objs, used_boxes |-> used]
        ELSE UpdateLoop(objs, bc, used, 1)

\* ObjectProcess.update_objects: the objects after the call and its result
update_objects(objs, bc) ==
    LET used == [j \in 1..Len(bc) |-> FALSE]
    IN  IF Len(bc) = 0
        THEN [objects    |-> [i \in 1..Len(objs) |-> update(objs[i], None)],
              used_boxes |-> used]
        ELSE UpdateLoop(objs, bc, used, 1)

RECURSIVE UnusedIndices(_, _)
\* the indices j >= from with used[j] == False, ascending
UnusedIndices(used, from) ==
    IF from > Len(used) THEN <<>>
    ELSE (IF used[from] THEN <<>> ELSE <<from>>) \o UnusedIndices(used, from + 1)

\* boxes_contours[used_boxes == False]
Unused(bc, used) ==
    LET ix == UnusedIndices(used, 1)
    IN  [n \in 1..Len(ix) |-> bc[ix[n]]]

\* np.where(np.all(boxes_contours == box, axis=1))[0][0]
FirstIndexOf(bc, box) ==
    CHOOSE j \in 1..Len(bc) : bc[j] = box /\ \A h \in 1..(j - 1) : bc[h] # box

\* UnhideStep with the threshold of update_objects: closest_dist < dist_thresh
UnhideStep_SameThreshold(o, bc, unused_boxes, used) ==
    LET c  == get_closest_box(o.avg_box, unused_boxes)
        ix == FirstIndexOf(bc, unused_boxes[c.closest_box])
    IN  IF DistBelow(c.closest_dist, dist_thresh_num, dist_thresh_den)
        THEN [object |-> unhide(o, bc[ix]), used |-> [used EXCEPT ![ix] = TRUE]]
        ELSE [object |-> o, used |-> used]

\* one iteration of the loop of unhide_if_applicable (lines 347-351) on a
\* hidden object o; unused_boxes is the array taken before the loop
UnhideStep(o, bc, unused_boxes, used) ==
    LET c  == get_closest_box(o.avg_box, unused_boxes)
        ix == FirstIndexOf(bc, unused_boxes[c.closest_box])
    IN  IF DistAtMost(c.closest_dist, unhide_thresh_num, unhide_thresh_den)
        THEN [object |-> unhide(o, bc[ix]), used |-> [used EXCEPT ![ix] = TRUE]]
        ELSE [object |-> o, used |-> used]

RECURSIVE UnhideLoop(_, _, _, _, _)
\* the loop over the hidden objects, in list order, from object i on
UnhideLoop(objs, bc, unused_boxes, used, i) ==
    IF i > Len(objs)
    THEN [objects |-> objs, used_boxes |-> used]
    ELSE IF objs[i].is_hidden
         THEN LET r == UnhideStep(objs[i], bc, unused_boxes, used)
              IN  UnhideLoop([objs EXCEPT ![i] = r.object], bc, unused_boxes, r.used, i + 1)
         ELSE UnhideLoop(objs, bc, unused_boxes, used, i + 1)

\* ObjectProcess.unhide_if_applicable: the objects and used_boxes after the call
unhide_if_applicable(objs, bc, used) ==
    LET unused_boxes == Unused(bc, used)
    IN  IF Len(unused_boxes) > 0
        THEN UnhideLoop(objs, bc, unused_boxes, used, 1)
        ELSE [objects |-> objs, used_boxes |-> used]

\* the BoxObjects create_new_objects constructs, in order
NewObjects(bc, used) ==
    LET unused_boxes == Unused(bc, used)
    IN  [n \in 1..Len(unused_boxes) |-> BoxObject(unused_boxes[n])]

\* create_new_objects that spawns a track for every box, claimed or not
create_new_objects_All(objs, bc, used) ==
    objs \o [n \in 1..Len(bc) |-> BoxObject(bc[n])]

\* create_new_objects that puts the new objects at the head of the list
create_new_objects_Prepend(objs, bc, used) == NewObjects(bc, used) \o objs

\* ObjectProcess.create_new_objects
create_new_objects(objs, bc, used) == objs \o NewObjects(bc, used)

\* KeepObject that keeps hidden objects whatever their age
KeepObject_KeepHidden(o) ==
    o.last_seen < last_seen_thresh

\* KeepObject with the grace period off by one: <= for <
KeepObject_OffByOne(o) ==
    o.last_seen <= last_seen_thresh /\ ~(o.is_hidden /\ o.age < age_threshold)

\* the test of remove_lost_objects on one object
KeepObject(o) ==
    o.last_seen < last_seen_thresh /\ ~(o.is_hidden /\ o.age < age_threshold)

\* ObjectProcess.remove_lost_objects
remove_lost_objects(objs) == SelectSeq(objs, KeepObject)

\* the test of draw_info on one object
IsDrawn(o) == Len(o.last_boxes) > draw_age_threshold

\* ObjectProcess.draw_info: the value of n_vehicles it writes on the image
draw_info(objs) == Cardinality({i \in 1..Len(objs) : IsDrawn(objs[i])})

(***************************************************************************)
(* The frames fed to the tracker: lists of boxes as get_bboxes_from_labels *)
(* returns them (distinct bounding boxes, in label order: by top row).     *)
(* All tracked boxes are 40 x 40 with x1 = 0, so a normalized distance of  *)
(* 0.1 is 4 pixels between centers and 0.15 is 6 pixels.                   *)
(***************************************************************************)
BoxA  == <<0, 4, 40, 44>>
BoxB  == <<0, 7, 40, 47>>
BoxB2 == <<0, 6, 40, 46>>
BoxC  == <<0, 0, 40, 40>>
\* far from the others
BoxF  == <<0, 100, 40, 140>>
\* 30 pixels wide: rejected by remove_outliers
BoxS  == <<0, 200, 30, 260>>

Inputs ==
    { <<>>,
      <<BoxA>>,
      <<BoxC, BoxA>>,
      <<BoxF, BoxS>>,
      <<BoxA, BoxB2, BoxB>> }

(***************************************************************************)
(* The state machine: one action per call of process_frame's tracking      *)
(* part, in the order of lines 466-473.                                    *)
(***************************************************************************)
Init ==
    /\ objects = <<>>
    /\ boxes = <<>>
    /\ boxes_contours = <<>>
    /\ used_boxes = <<>>
    /\ n_vehicles = 0
    /\ pc = "remove_outliers"
    /\ lost = <<>>
    /\ lived = <<>>
    /\ changes = 0
    /\ hot_windows = <<>>
    /\ heat = <<>>
    /\ distances = <<>>
    /\ quiet = 0

\* a frame arrives: boxes = get_bboxes_from_labels(labels) (line 466) and
\* boxes_contours = self.remove_outliers(boxes) (line 467)
RemoveOutliers(bs) ==
    /\ pc = "remove_outliers"
    /\ bs # <<>> => \A i \in 1..Len(objects) : objects[i].age < MaxBusyAge
    /\ IF bs = boxes \/ objects = <<>>
       THEN changes' = changes
       ELSE changes < MaxChanges /\ changes' = changes + 1
    /\ boxes' = bs
    /\ boxes_contours' = remove_outliers(bs)
    /\ used_boxes' = <<>>
    /\ lost' = <<>>
    /\ lived' = [i \in 1..Len(lived) |-> lived[i] + 1]
    /\ quiet' = IF remove_outliers(bs) = <<>> THEN Min(quiet + 1, last_seen_thresh) ELSE 0
    /\ pc' = "update_objects"
    /\ UNCHANGED <<objects, n_vehicles>>
    /\ UNCHANGED <<hot_windows, heat, distances>>

\* used_boxes = self.update_objects(boxes_contours) (line 468)
UpdateObjects ==
    /\ pc = "update_objects"
    /\ LET r == update_objects(objects, boxes_contours)
       IN  objects' = r.objects /\ used_boxes' = r.used_boxes
    /\ pc' = "unhide_if_applicable"
    /\ UNCHANGED <<boxes, boxes_contours, n_vehicles, lost, lived, changes>>
    /\ UNCHANGED <<hot_windows, heat, distances, quiet>>

\* self.unhide_if_applicable(boxes_contours, used_boxes) (line 469)
UnhideIfApplicable ==
    /\ pc = "unhide_if_applicable"
    /\ LET r == unhide_if_applicable(objects, boxes_contours, used_boxes)
       IN  objects' = r.objects /\ used_boxes' = r.used_boxes
    /\ pc' = "create_new_objects"
    /\ UNCHANGED <<boxes, boxes_contours, n_vehicles, lost, lived, changes>>
    /\ UNCHANGED <<hot_windows, heat, distances, quiet>>

\* self.create_new_objects(boxes_contours, used_boxes) (line 470)
CreateNewObjects ==
    /\ pc = "create_new_objects"
    /\ objects' = create_new_objects(objects, boxes_contours, used_boxes)
    /\ lived' = lived \o [n \in 1..(Len(objects') - Len(objects)) |-> 1]
    /\ pc' = "remove_lost_objects"
    /\ UNCHANGED <<boxes, boxes_contours, used_boxes, n_vehicles, lost, changes>>
    /\ UNCHANGED <<hot_windows, heat, distances, quiet>>

RECURSIVE KeptIndices(_, _)
\* the positions >= from of the objects remove_lost_objects keeps
KeptIndices(objs, from) ==
    IF from > Len(objs) THEN <<>>
    ELSE (IF KeepObject(objs[from]) THEN <<from>> ELSE <<>>) \o KeptIndices(objs, from + 1)

\* self.remove_lost_objects() (line 471)
RemoveLostObjects ==
    /\ pc = "remove_lost_objects"
    /\ objects' = remove_lost_objects(objects)
    /\ lost' = SelectSeq(objects, LAMBDA o : o \notin {objects'[i] : i \in 1..Len(objects')})
    /\ LET ix == KeptIndices(objects, 1)
       IN  lived' = [n \in 1..Len(ix) |-> lived[ix[n]]]
    /\ pc' = "draw_info"
    /\ UNCHANGED <<boxes, boxes_contours, used_boxes, n_vehicles, changes>>
    /\ UNCHANGED <<hot_windows, heat, distances, quiet>>

\* window_img = self.draw_info(...) (line 473); the frame's locals end here
DrawInfo ==
    /\ pc = "draw_info"
    /\ n_vehicles' = draw_info(objects)
    /\ boxes_contours' = <<>>
    /\ used_boxes' = <<>>
    /\ pc' = "remove_outliers"
    /\ UNCHANGED <<objects, boxes, lost, lived, changes>>
    /\ UNCHANGED <<hot_windows, heat, distances, quiet>>

Next ==
    \/ \E bs \in Inputs : RemoveOutliers(bs)
    \/ UpdateObjects
    \/ UnhideIfApplicable
    \/ CreateNewObjects
    \/ RemoveLostObjects
    \/ DrawInfo

Spec == Init /\ [][Next]_vars

(***************************************************************************)
(* The tracker on a video that can go quiet at any frame.  process_frame   *)
(* is called once per frame of the clip and every call runs to its end, so *)
(* a step that is possible is eventually taken.                            *)
(***************************************************************************)
\* a frame without boxes, whatever the frames before it were; it uses up the
\* input changes, so that the frames after it stay without boxes while
\* objects are left
QuietFrame ==
    /\ pc = "remove_outliers"
    /\ changes' = MaxChanges
    /\ boxes' = <<>>
    /\ boxes_contours' = remove_outliers(<<>>)
    /\ used_boxes' = <<>>
    /\ lost' = <<>>
    /\ lived' = [i \in 1..Len(lived) |-> lived[i] + 1]
    /\ quiet' = Min(quiet + 1, last_seen_thresh)
    /\ pc' = "update_objects"
    /\ UNCHANGED <<objects, n_vehicles>>
    /\ UNCHANGED <<hot_windows, heat, distances>>

\* the tracker before the first frame, with one change of input left
InitFair ==
    /\ objects = <<>>
    /\ boxes = <<>>
    /\ boxes_contours = <<>>
    /\ used_boxes = <<>>
    /\ n_vehicles = 0
    /\ pc = "remove_outliers"
    /\ lost = <<>>
    /\ lived = <<>>
    /\ changes = MaxChanges - 1
    /\ hot_windows = <<>>
    /\ heat = <<>>
    /\ distances = <<>>
    /\ quiet = 0

NextFair == Next \/ QuietFrame

\* the call at pc returns and the next call of process_frame starts (lines
\* 466-473; after draw_info, the next frame).  Every call of NextFair is such
\* a step and one is possible in every state, so fairness of Advance is
\* fairness of NextFair.
Advance ==
    \/ pc = "remove_outliers" /\ pc' = "update_objects"
    \/ pc = "update_objects" /\ pc' = "unhide_if_applicable"
    \/ pc = "unhide_if_applicable" /\ pc' = "create_new_objects"
    \/ pc = "create_new_objects" /\ pc' = "remove_lost_objects"
    \/ pc = "remove_lost_objects" /\ pc' = "draw_info"
    \/ pc = "draw_info" /\ pc' = "remove_outliers"

SpecFair == InitFair /\ [][NextFair]_vars /\ WF_pc(Advance)

(***************************************************************************)
(* The outlier filter alone: remove_outliers applied to lists of boxes     *)
(* around the split row and the two size limits.                           *)
(***************************************************************************)
\* longest list of boxes handed to the filter
MaxFilterLen == 2

FilterBoxes ==
    { <<0, y1, w, y1 + h>> : y1 \in {449, 450, 451},
                             w \in {32, 33, 64, 65}, h \in {32, 33, 64, 65} }

FilterInputs ==
    UNION { [1..n -> FilterBoxes] : n \in 0..MaxFilterLen }

InitFilter ==
    /\ objects = <<>>
    /\ boxes \in FilterInputs
    /\ boxes_contours = <<>>
    /\ used_boxes = <<>>
    /\ n_vehicles = 0
    /\ pc = "filter"
    /\ lost = <<>>
    /\ lived = <<>>
    /\ changes = 0
    /\ hot_windows = <<>>
    /\ heat = <<>>
    /\ distances = <<>>
    /\ quiet = 0

\* boxes_contours = self.remove_outliers(boxes_contours) (line 467)
FilterCall ==
    /\ pc = "filter"
    /\ boxes_contours' = remove_outliers(boxes)
    /\ pc' = "filtered"
    /\ UNCHANGED <<objects, boxes, used_boxes, n_vehicles, lost, lived, changes>>
    /\ UNCHANGED <<hot_windows, heat, distances, quiet>>

NextFilter == FilterCall

SpecFilter == InitFilter /\ [][NextFilter]_vars

(***************************************************************************)
(* Heatmap fusion alone (lines 441-448): add_heat and apply_threshold on a *)
(* small image.  heat maps each pixel <<x, y>> to its count.  A window is  *)
(* <<<<x1, y1>>, <<x2, y2>>>> as slide_window builds it: a square of one   *)
(* of two sizes at a grid position, possibly reaching past the image edge, *)
(* where the numpy slice is clipped.                                       *)
(***************************************************************************)
\* image width and height in pixels
GridW == 2
GridH == 2
\* longest list of hot windows
MaxHeatLen == 3
\* self.apply_threshold(heat, 1)
heat_threshold == 1

Cells == (0..(GridW - 1)) \X (0..(GridH - 1))

\* np.zeros_like(image[:, :, 0])
ZeroHeat == [c \in Cells |-> 0]

Windows ==
    { <<<<x, y>>, <<x + sz, y + sz>>>> :
          x \in 0..(GridW - 1), y \in 0..(GridH - 1), sz \in {1, 2} }

HeatInputs ==
    UNION { [1..n -> Windows] : n \in 0..MaxHeatLen }

\* pixel c lies in heatmap[box[0][1]:box[1][1], box[0][0]:box[1][0]]
InSlice(c, box) ==
    /\ box[1][1] <= c[1] /\ c[1] < box[2][1]
    /\ box[1][2] <= c[2] /\ c[2] < box[2][2]

\* the loop body of add_heat that overwrites the pixels instead of adding
AddBox_Overwrite(h, box) ==
    [c \in DOMAIN h |-> IF InSlice(c, box) THEN 1 ELSE h[c]]

\* the loop body of add_heat: heatmap[y1:y2, x1:x2] += 1
AddBox(h, box) ==
    [c \in DOMAIN h |-> IF InSlice(c, box) THEN h[c] + 1 ELSE h[c]]

RECURSIVE add_heat(_, _)
\* ObjectProcess.add_heat
add_heat(h, bbox_list) ==
    IF bbox_list = <<>> THEN h
    ELSE add_heat(AddBox(h, Head(bbox_list)), Tail(bbox_list))

\* apply_threshold that zeroes only the pixels strictly below the threshold
apply_threshold_Strict(h, threshold) ==
    [c \in DOMAIN h |-> IF h[c] < threshold THEN 0 ELSE h[c]]

\* ObjectProcess.apply_threshold: heatmap[heatmap <= threshold] = 0
apply_threshold(h, threshold) ==
    [c \in DOMAIN h |-> IF h[c] <= threshold THEN 0 ELSE h[c]]

InitHeat ==
    /\ objects = <<>>
    /\ boxes = <<>>
    /\ boxes_contours = <<>>
    /\ used_boxes = <<>>
    /\ n_vehicles = 0
    /\ pc = "add_heat"
    /\ lost = <<>>
    /\ lived = <<>>
    /\ changes = 0
    /\ hot_windows \in HeatInputs
    /\ heat = ZeroHeat
    /\ distances = <<>>
    /\ quiet = 0

\* heat = self.add_heat(heat, box_list) (line 445)
AddHeat ==
    /\ pc = "add_heat"
    /\ heat' = add_heat(heat, hot_windows)
    /\ pc' = "apply_threshold"
    /\ UNCHANGED <<objects, boxes, boxes_contours, used_boxes, n_vehicles, lost, lived,
                   changes, hot_windows, distances, quiet>>

\* heat = self.apply_threshold(heat, 1) (line 448)
ApplyThreshold ==
    /\ pc = "apply_threshold"
    /\ heat' = apply_threshold(heat, heat_threshold)
    /\ pc' = "label"
    /\ UNCHANGED <<objects, boxes, boxes_contours, used_boxes, n_vehicles, lost, lived,
                   changes, hot_windows, distances, quiet>>

NextHeat == AddHeat \/ ApplyThreshold

SpecHeat == InitHeat /\ [][NextHeat]_vars


(***************************************************************************)
(* get_closest_box alone (lines 49-71): the distance between two boxes,    *)
(* taken in both directions and after multiplying every coordinate of both *)
(* boxes by k.                                                             *)
(***************************************************************************)
\* largest coordinate of a box's upper left corner, largest side, largest k
MaxCorner == 1
MaxSide == 2
MaxScale == 2

DistBoxes ==
    { <<x1, y1, x1 + w, y1 + h>> :
          x1 \in 0..MaxCorner, y1 \in 0..MaxCorner, w \in 1..MaxSide, h \in 1..MaxSide }

\* every coordinate of b multiplied by k
Scale(b, k) == [i \in 1..4 |-> k * b[i]]

InitDist ==
    /\ objects = <<>>
    /\ boxes \in [1..2 -> DistBoxes]
    /\ boxes_contours = <<>>
    /\ used_boxes = <<>>
    /\ n_vehicles = 0
    /\ pc = "get_closest_box"
    /\ lost = <<>>
    /\ lived = <<>>
    /\ changes = 0
    /\ hot_windows = <<>>
    /\ heat = <<>>
    /\ distances = <<>>
    /\ quiet = 0

GetClosestBox(k) ==
    /\ pc = "get_closest_box"
    /\ distances' =
           [k |-> k,
            ab |-> get_closest_box(boxes[1], <<boxes[2]>>).closest_dist,
            ba |-> get_closest_box(boxes[2], <<boxes[1]>>).closest_dist,
            scaled |-> get_closest_box(Scale(boxes[1], k),
                                       <<Scale(boxes[2], k)>>).closest_dist]
    /\ pc' = "closest_dist"
    /\ UNCHANGED <<objects, boxes, boxes_contours, used_boxes, n_vehicles, lost, lived,
                   changes, hot_windows, heat, quiet>>

NextDist == \E k \in 1..MaxScale : GetClosestBox(k)

SpecDist == InitDist /\ [][NextDist]_vars

(***************************************************************************)
(* Claims.                                                                 *)
(***************************************************************************)
Last(l) == l[Len(l)]

\* C1: remove_lost_objects removes a track if and only if last_seen >= 24 or
\* (is_hidden and age < 8): the list after the call is the list before it
\* without exactly those tracks, in the same order; so a track with
\* last_seen = 23 that is not (hidden and younger than 8) survives and a
\* track with last_seen = 24 is removed.
C1_PruneExact ==
    [][pc = "remove_lost_objects" =>
          /\ objects' = SelectSeq(objects,
                 LAMBDA o : ~(o.last_seen >= 24 \/ (o.is_hidden /\ o.age < 8)))
          /\ \A i \in 1..Len(objects) :
                 /\ (objects[i].last_seen = 23
                       /\ ~(objects[i].is_hidden /\ objects[i].age < 8))
                    => \E k \in 1..Len(objects') : objects'[k] = objects[i]
                 /\ objects[i].last_seen = 24
                    => \A k \in 1..Len(objects') : objects'[k] # objects[i]]_vars

\* C1 witness: a prune has just dropped a visible track at last_seen = 24 and
\* kept one at last_seen = 23.
C1_Witness ==
    /\ pc = "draw_info"
    /\ \E k \in 1..Len(lost) : lost[k].last_seen = 24 /\ ~lost[k].is_hidden
    /\ \E i \in 1..Len(objects) : objects[i].last_seen = 23

\* C2: after a successful unhide in Step 2 the track's avg_box equals the
\* newly matched candidate box (the box unhide appended to last_boxes); the
\* later calls of the frame do not touch avg_box.
C2_UnhideSnaps ==
    [][pc = "unhide_if_applicable" =>
          \A i \in 1..Len(objects) :
              (objects[i].is_hidden /\ ~objects'[i].is_hidden)
              => objects'[i].avg_box = Last(objects'[i].last_boxes)]_vars

\* C3: each live track's avg_box is the integer-truncated mean of the last
\* min(len(last_boxes), 10) entries of its last_boxes.
C3_AvgIsWindowMean ==
    \A i \in 1..Len(objects) :
        LET l == objects[i].last_boxes
            n == IF Len(l) < 10 THEN Len(l) ELSE 10
        IN  \A k \in 1..4 :
                objects[i].avg_box[k] = SumCoord(SubSeq(l, Len(l) - n + 1, Len(l)), k) \div n

\* the candidate (index into bc) that Step 1 assigns to a track whose
\* avg_box is box: its closest candidate if within dist_thresh, else 0
Assigned(box, bc) ==
    IF Len(bc) = 0 THEN 0
    ELSE LET c == get_closest_box(box, bc)
         IN  IF DistBelow(c.closest_dist, dist_thresh_num, dist_thresh_den)
             THEN c.closest_box ELSE 0

\* C4: collision rule of Step 1.  When two tracks i < j both have candidate m
\* as their closest candidate within dist_thresh: the later track j ends the
\* step hidden; the flag of the earlier track i is what it was, unless a
\* still earlier track had taken m before it; both ages grow by 1; and m
\* ends the step marked claimed.  "Claims" is read as taking the box while
\* it is unclaimed (line 330 reads False): the later track found it claimed,
\* which is what hides it, so of the two only the earlier can have claimed it.
\* Both tracks are updated with the box.
C4_Collision ==
    [][pc = "update_objects" =>
          \A i, j \in 1..Len(objects) :
              LET m == Assigned(objects[i].avg_box, boxes_contours)
              IN  (i < j /\ m # 0 /\ m = Assigned(objects[j].avg_box, boxes_contours))
                  => /\ objects'[j].is_hidden
                     /\ objects'[i].is_hidden =
                            (objects[i].is_hidden
                             \/ \E h \in 1..(i - 1) :
                                    Assigned(objects[h].avg_box, boxes_contours) = m)
                     /\ objects'[i].age = objects[i].age + 1
                     /\ objects'[j].age = objects[j].age + 1
                     /\ used_boxes'[m]]_vars

\* C4 witness: Step 1 has just run and two tracks took the same candidate, the
\* earlier visible and the later hidden.
C4_Witness ==
    /\ pc = "unhide_if_applicable"
    /\ \E i, j \in 1..Len(objects) :
           /\ i < j
           /\ objects[i].last_seen = 0 /\ objects[j].last_seen = 0
           /\ Last(objects[i].last_boxes) = Last(objects[j].last_boxes)
           /\ ~objects[i].is_hidden /\ objects[j].is_hidden
           /\ objects[i].age > 1 /\ objects[j].age > 1

\* C5: at the end of a frame no two live tracks that are both not hidden
\* were updated in that frame from the same candidate box.  Stated over
\* Step 2, the last call that changes is_hidden: two tracks that Step 1
\* updated from one box (last_seen = 0, same newest box) are not both
\* visible after Step 2; such tracks outlive the frame's prune.
C5_NoDuplicates ==
    [][pc = "unhide_if_applicable" =>
          \A i, j \in 1..Len(objects) :
              (i < j
               /\ objects[i].last_seen = 0 /\ objects[j].last_seen = 0
               /\ Last(objects[i].last_boxes) = Last(objects[j].last_boxes))
              => (objects'[i].is_hidden \/ objects'[j].is_hidden)]_vars

\* C6: every track that draw_info draws and counts (len(last_boxes) > 8) has
\* age greater than 8.
C6_DrawnAreOld ==
    pc = "draw_info" =>
        \A i \in 1..Len(objects) :
            Len(objects[i].last_boxes) > 8 => objects[i].age > 8

\* C7: remove_outliers keeps a box if and only if y1 < 450 and width and
\* height are both > 32, or y1 >= 450 and width and height are both > 64.
C7_FilterRule ==
    pc = "filtered" =>
        boxes_contours = SelectSeq(boxes,
            LAMBDA b : \/ (b[2] < 450 /\ b[3] - b[1] > 32 /\ b[4] - b[2] > 32)
                       \/ (b[2] >= 450 /\ b[3] - b[1] > 64 /\ b[4] - b[2] > 64))

\* C8: Step 3 appends to the live list exactly one new track per candidate
\* left unclaimed after Steps 1 and 2, in candidate order, each with
\* last_boxes = <<box>>, avg_box = box, age = 1, last_seen = 0 and
\* is_hidden = FALSE; the older tracks are untouched and no track is created
\* for a claimed candidate.
C8_Spawn ==
    [][pc = "create_new_objects" =>
          LET free == SelectSeq([j \in 1..Len(boxes_contours) |-> j],
                                LAMBDA j : ~used_boxes[j])
          IN  /\ Len(objects') = Len(objects) + Len(free)
              /\ \A i \in 1..Len(objects) : objects'[i] = objects[i]
              /\ \A n \in 1..Len(free) :
                     objects'[Len(objects) + n] =
                         [is_hidden |-> FALSE,
                          last_boxes |-> <<boxes_contours[free[n]]>>,
                          avg_box |-> boxes_contours[free[n]],
                          last_seen |-> 0,
                          age |-> 1]]_vars

\* C8 witness: Step 3 has just run in a frame with a claimed and an unclaimed
\* candidate, and the newest track is the one made from the unclaimed one.
C8_Witness ==
    /\ pc = "remove_lost_objects"
    /\ Len(objects) > 1
    /\ \E j, k \in 1..Len(boxes_contours) :
           /\ used_boxes[j] /\ ~used_boxes[k]
           /\ Last(objects).last_boxes = <<boxes_contours[k]>>
           /\ Last(objects).age = 1

\* C9: in Step 1 each pre-existing track gets exactly one of the two updates:
\* a real box (one box pushed to last_boxes, avg_box the mean of the new
\* window, last_seen = 0) or no detection (last_seen + 1, last_boxes and
\* avg_box unchanged); its age grows by exactly 1 either way, and at the end
\* of every frame age is the number of frames the track has lived.
C9_OneUpdatePerFrame ==
    [][/\ pc = "update_objects" =>
             /\ Len(objects') = Len(objects)
             /\ \A i \in 1..Len(objects) :
                    LET o == objects[i]
                        n == objects'[i]
                        real == /\ Len(n.last_boxes) = Len(o.last_boxes) + 1
                                /\ SubSeq(n.last_boxes, 1, Len(o.last_boxes)) = o.last_boxes
                                /\ \E m \in 1..Len(boxes_contours) :
                                       Last(n.last_boxes) = boxes_contours[m]
                                /\ n.avg_box = MeanBox(LastN(n.last_boxes,
                                                   Min(Len(n.last_boxes), 10)))
                                /\ n.last_seen = 0
                        none == /\ n.last_boxes = o.last_boxes
                                /\ n.avg_box = o.avg_box
                                /\ n.last_seen = o.last_seen + 1
                    IN  /\ real \/ none
                        /\ ~(real /\ none)
                        /\ n.age = o.age + 1
       /\ pc' = "remove_outliers" =>
             \A i \in 1..Len(objects') : objects'[i].age = lived'[i]]_vars

\* C9 witness: Step 1 has just run on two older tracks, one updated with a
\* real box and one with no detection.
C9_Witness ==
    /\ pc = "unhide_if_applicable"
    /\ \E i, j \in 1..Len(objects) :
           /\ objects[i].age > 2 /\ objects[i].last_seen = 0
           /\ objects[j].age > 2 /\ objects[j].last_seen > 1

\* C10: in a frame with zero candidate boxes every track takes the
\* no-detection update (last_seen + 1, age + 1, nothing else changed), Step 2
\* unhides nothing, Step 3 spawns nothing, and pruning an empty list leaves
\* it empty.
C10_EmptyFrame ==
    [][/\ (pc = "update_objects" /\ boxes_contours = <<>>) =>
             /\ Len(objects') = Len(objects)
             /\ \A i \in 1..Len(objects) :
                    objects'[i] = [objects[i] EXCEPT !.last_seen = @ + 1, !.age = @ + 1]
       /\ (pc \in {"unhide_if_applicable", "create_new_objects"}
           /\ boxes_contours = <<>>) => objects' = objects
       /\ (pc = "remove_lost_objects" /\ objects = <<>>) => objects' = <<>>]_vars

\* C10 witness: a frame without candidates has passed Steps 1 to 3 with a
\* hidden and a visible track in the list.
C10_Witness ==
    /\ pc = "remove_lost_objects"
    /\ boxes_contours = <<>>
    /\ boxes = <<>>
    /\ \E i, j \in 1..Len(objects) :
           /\ objects[i].is_hidden /\ objects[i].last_seen > 0
           /\ ~objects[j].is_hidden /\ objects[j].last_seen > 0

\* the number of windows of l whose half-open rectangle covers pixel c
Coverage(l, c) ==
    Cardinality({i \in 1..Len(l) :
        /\ l[i][1][1] <= c[1] /\ c[1] < l[i][2][1]
        /\ l[i][1][2] <= c[2] /\ c[2] < l[i][2][2]})

\* the orderings of the list l
Orderings(l) ==
    { [i \in 1..Len(l) |-> l[p[i]]] : p \in Permutations(1..Len(l)) }

\* C11: add_heat on an all-zero heatmap gives the same heatmap for every
\* ordering of the boxes, and each pixel holds the number of boxes whose
\* rectangle [x1, x2) x [y1, y2) covers it.
C11_HeatOrderIndependent ==
    pc = "apply_threshold" =>
        /\ \A c \in Cells : heat[c] = Coverage(hot_windows, c)
        /\ \A l \in Orderings(hot_windows) : add_heat(ZeroHeat, l) = heat

\* C11 witness: add_heat has run on three windows, not all equal, that stack
\* to 3 on one pixel and leave another pixel at 0.
C11_Witness ==
    /\ pc = "apply_threshold"
    /\ Len(hot_windows) = 3
    /\ hot_windows[1] # hot_windows[2]
    /\ \E c, d \in Cells : heat[c] = 3 /\ heat[d] = 0

DiagScaled(d, e, f) ==
    {e.d1, e.d2} = {f * f * d.d1, f * f * d.d2}

\* distance e = distance d, for e whose mean diagonal is f times that of d:
\* sqrt(e.c2) / (f M) = sqrt(d.c2) / M
SameDistance(d, e, f) ==
    /\ DiagScaled(d, e, f)
    /\ e.c2 = f * f * d.c2

\* C13: the normalized distance is symmetric, distance(A, B) = distance(B, A),
\* and scale invariant: multiplying every coordinate of both boxes by k > 0
\* leaves it unchanged.
C13_SymmetricScaleInvariant ==
    pc = "closest_dist" =>
        /\ SameDistance(distances.ab, distances.ba, 1)
        /\ SameDistance(distances.ab, distances.scaled, distances.k)

\* C14: grace period.  last_seen of a track that is not hidden counts its
\* consecutive unmatched frames: Step 1 sets it to 0 on a match and adds 1
\* (leaving the track visible) otherwise, and no other step changes it; the
\* prune keeps the track at every count up to 23 and removes it at 24, and
\* no count above 24 is ever reached.
C14_GracePeriod ==
    [][/\ \A i \in 1..Len(objects) : objects[i].last_seen <= 24
       /\ pc = "update_objects" =>
              \A i \in 1..Len(objects) :
                  ~objects[i].is_hidden =>
                      IF Assigned(objects[i].avg_box, boxes_contours) # 0
                      THEN objects'[i].last_seen = 0
                      ELSE /\ objects'[i].last_seen = objects[i].last_seen + 1
                           /\ ~objects'[i].is_hidden
       /\ pc \in {"unhide_if_applicable", "create_new_objects"} =>
              \A i \in 1..Len(objects) :
                  objects'[i].last_seen = objects[i].last_seen
       /\ pc = "remove_lost_objects" =>
              /\ \A i \in 1..Len(objects) :
                     ~objects[i].is_hidden =>
                         /\ objects[i].last_seen <= 23
                            => \E k \in 1..Len(objects') : objects'[k] = objects[i]
                         /\ objects[i].last_seen = 24
                            => \A k \in 1..Len(objects') : objects'[k] # objects[i]
              /\ Len(objects') <= Len(objects)
       /\ pc \in {"draw_info", "remove_outliers"} => objects' = objects]_vars

\* C14 witness: the prune has just removed a visible track at its 24th
\* consecutive unmatched frame that had been matched after its creation
\* (age above 25), while another visible track in its grace period stays.
C14_Witness ==
    /\ pc = "draw_info"
    /\ \E k \in 1..Len(lost) :
           lost[k].last_seen = 24 /\ ~lost[k].is_hidden /\ lost[k].age > 25
    /\ \E i \in 1..Len(objects) :
           ~objects[i].is_hidden /\ objects[i].last_seen \in 1..23

\* C15: liveness of pruning.  If from some frame on every frame delivers no
\* candidate boxes, then eventually the live list is empty and stays empty;
\* and it is empty at the end of the 24th such frame in a row.
C15_QuietEmpties ==
    /\ [](pc \in {"draw_info", "remove_outliers"} /\ quiet >= 24 => objects = <<>>)
    /\ (<>[](quiet > 0) => <>[](objects = <<>>))

\* C15 witness: the 24th frame in a row without candidates has just removed
\* the last live tracks.
C15_Witness ==
    /\ pc = "draw_info"
    /\ quiet = 24
    /\ lost # <<>>
    /\ objects = <<>>

\* a candidate Step 1 left unclaimed lies within 1.5 x dist_thresh of box
UnclaimedNear(box, bc, used) ==
    \E m \in 1..Len(bc) :
        ~used[m] /\ DistAtMost(Distance(box, bc[m]), 3, 20)

\* C16: hidden-state transitions.  In Step 1 a track's flag becomes true
\* exactly when its closest candidate within dist_thresh is also the one
\* assigned to an earlier track of the list, and is never cleared; in Step 2
\* the flag of a hidden track is cleared exactly when a candidate not claimed
\* in Step 1 lies within 1.5 x dist_thresh of it, and is never set; every
\* other step leaves the flag of every track it keeps as it was.
C16_HiddenTransitions ==
    [][/\ pc = "update_objects" =>
              \A i \in 1..Len(objects) :
                  LET m == Assigned(objects[i].avg_box, boxes_contours)
                  IN  objects'[i].is_hidden =
                          (\/ objects[i].is_hidden
                           \/ /\ m # 0
                              /\ \E j \in 1..(i - 1) :
                                     Assigned(objects[j].avg_box, boxes_contours) = m)
       /\ pc = "unhide_if_applicable" =>
              \A i \in 1..Len(objects) :
                  objects'[i].is_hidden =
                      (/\ objects[i].is_hidden
                       /\ ~UnclaimedNear(objects[i].avg_box, boxes_contours, used_boxes))
       /\ pc = "create_new_objects" =>
              \A i \in 1..Len(objects) :
                  objects'[i].is_hidden = objects[i].is_hidden
       /\ pc = "remove_lost_objects" =>
              LET ix == KeptIndices(objects, 1)
              IN  /\ Len(objects') = Len(ix)
                  /\ \A n \in 1..Len(ix) :
                         objects'[n].is_hidden = objects[ix[n]].is_hidden
       /\ pc \in {"draw_info", "remove_outliers"} =>
              /\ Len(objects') = Len(objects)
              /\ \A i \in 1..Len(objects) :
                     objects'[i].is_hidden = objects[i].is_hidden]_vars

\* C16 witness: Step 2 is about to run on a track that Step 1 has hidden in
\* an earlier frame (it is hidden, older than 8 and was kept by a prune) and
\* that has an unclaimed candidate within 1.5 x dist_thresh but none within
\* dist_thresh, next to a visible track.
C16_Witness ==
    /\ pc = "unhide_if_applicable"
    /\ \E i \in 1..Len(objects) :
           /\ objects[i].is_hidden
           /\ objects[i].age > 8
           /\ UnclaimedNear(objects[i].avg_box, boxes_contours, used_boxes)
           /\ \A m \in 1..Len(boxes_contours) :
                  ~used_boxes[m] =>
                      ~DistBelow(Distance(objects[i].avg_box, boxes_contours[m]), 1, 10)
    /\ \E j \in 1..Len(objects) : ~objects[j].is_hidden

\* the tracks that Step 2 unhides in the step from the current state
Unhidden ==
    {i \in 1..Len(objects) : objects[i].is_hidden /\ ~objects'[i].is_hidden}

\* C17: within one frame's Step 2 the candidate that unhides a track (the box
\* unhide appends to its last_boxes) is marked claimed, and no candidate
\* unhides two tracks.
C17_OneUnhidePerCandidate ==
    [][pc = "unhide_if_applicable" =>
          /\ \A i \in Unhidden :
                 \E m \in 1..Len(boxes_contours) :
                     /\ boxes_contours[m] = Last(objects'[i].last_boxes)
                     /\ ~used_boxes[m] /\ used_boxes'[m]
          /\ \A i, j \in Unhidden :
                 i # j => Last(objects'[i].last_boxes) # Last(objects'[j].last_boxes)]_vars

\* the sum of coordinate k over the entries from..to of l
WindowSum(l, from, to, k) ==
    LET S[n \in (from - 1)..to] == IF n < from THEN 0 ELSE S[n - 1] + l[n][k]
    IN  S[to]

\* C18: smoothing window bound.  When update pushes a box onto a track that
\* then holds more than 10 boxes, the new avg_box is the truncated mean of
\* the 10 most recent boxes only: the sum of the previous 10 boxes, less the
\* oldest of them, plus the new box, divided by 10.
C18_WindowSlides ==
    [][pc = "update_objects" =>
          \A i \in 1..Len(objects) :
              LET old == objects[i].last_boxes
                  new == objects'[i].last_boxes
                  n   == Len(old)
              IN  (Len(new) = n + 1 /\ n >= 10) =>
                      \A k \in 1..4 :
                          /\ objects'[i].avg_box[k] =
                                 (WindowSum(old, n - 9, n, k) - old[n - 9][k] + new[n + 1][k])
                                     \div 10
                          /\ objects'[i].avg_box[k] = WindowSum(new, n - 8, n + 1, k) \div 10]_vars

\* C18 witness: Step 1 has just pushed a box onto a track that now holds more
\* than 10 boxes; the box that left the window differs from the new one and
\* the boxes before the window differ from the mean.
C18_Witness ==
    /\ pc = "unhide_if_applicable"
    /\ \E i \in 1..Len(objects) :
           LET l == objects[i].last_boxes
           IN  /\ Len(l) > 10
               /\ objects[i].last_seen = 0
               /\ l[Len(l) - 10] # l[Len(l)]
               /\ objects[i].avg_box # l[Len(l) - 10]
               /\ objects[i].avg_box # l[Len(l)]

\* C19: the live list is in creation order.  At the end of every frame the
\* ages are non-increasing along the list; the prune keeps the survivors in
\* their order and the spawn appends the new tracks after the old ones.
C19_CreationOrder ==
    [][/\ pc \in {"draw_info", "remove_outliers"} =>
              \A i, j \in 1..Len(objects) :
                  i < j => objects[i].age >= objects[j].age
       /\ pc = "create_new_objects" =>
              /\ SubSeq(objects', 1, Len(objects)) = objects
              /\ \A n \in (Len(objects) + 1)..Len(objects') : objects'[n].age = 1
       /\ pc = "remove_lost_objects" =>
              LET ix == KeptIndices(objects, 1)
              IN  objects' = [n \in 1..Len(ix) |-> objects[ix[n]]]]_vars

\* C19 witness: a frame has ended with tracks of three different ages in the
\* list, spawned in three different frames.
C19_Witness ==
    /\ pc = "remove_outliers"
    /\ Len(objects) >= 3
    /\ objects[1].age > objects[2].age
    /\ objects[2].age > objects[3].age

\* C20: at the end of every frame every live track that is hidden has
\* age >= 8; the prune removes every track that is hidden and younger.
C20_HiddenAreOld ==
    pc \in {"draw_info", "remove_outliers"} =>
        \A i \in 1..Len(objects) : objects[i].is_hidden => objects[i].age >= 8

\* C20 witness: a frame has ended with a live hidden track of age exactly 8.
C20_Witness ==
    /\ pc = "remove_outliers"
    /\ \E i \in 1..Len(objects) : objects[i].is_hidden /\ objects[i].age = 8

====
